---- MODULE Spec2Model ----
(***************************************************************************)
(* A model of the dds crate: Dds::encode_uncompressed, Header::decode,     *)
(* Header::get_layer_sizes and format::decode_layers with the uncompressed *)
(* and the DXT1..DXT5 paths.                                               *)
(*                                                                         *)
(* Representation.  TLC's integers are 32-bit signed, so a u32 that is     *)
(* used as a bit pattern (a pixel word, a channel mask) is held as the set *)
(* of its one-bits (a subset of 0..31), and the 48-bit alpha field of a    *)
(* DXT4/5 block is read bit by bit from its six bytes.  A byte buffer is a *)
(* sequence of 0..255.  A panic of the Rust code is an outcome of its own: *)
(* result.kind = "panic" with the panic message.                          *)
(***************************************************************************)
EXTENDS Integers, Sequences, FiniteSets

VARIABLES
  overflow_checks, \* build profile: TRUE = debug (overflow checks), FALSE = release
  image,           \* the RgbaImage handed to Dds::encode_uncompressed
  stream,          \* the bytes written by the encoder / read by Dds::decode
  header,          \* the parsed Header
  buf,             \* decode_layers' whole input buffer
  cursor,          \* number of bytes of buf already split off (the `buf` slice start)
  layer_sizes,     \* get_layer_sizes' return value
  level,           \* 1-based index of the next element of layer_sizes
  layers,          \* the Vec<RgbaImage> under construction
  result,          \* what the call returned (or that it panicked)
  pc,              \* position in the call
  call,            \* arguments of a directly called pure function
  ret              \* its return value

vars == <<overflow_checks, image, stream, header, buf, cursor, layer_sizes,
          level, layers, result, pc, call, ret>>

\* ------------------------------------------------------------------ bounds

MaxDim == 5
MaxMip == 3
MaxImgDim == 3
MaxSizesMip == 33

\* ------------------------------------------------------------- arithmetic

Max(a, b) == IF a >= b THEN a ELSE b

Min(a, b) == IF a <= b THEN a ELSE b

Pow2(n) == 2 ^ n

\* the one-bits of a byte
ByteBits(b) == {i \in 0..7 : (b \div Pow2(i)) % 2 = 1}

Shl(S, n) == {i + n : i \in S}

Shr(S, n) == {i - n : i \in {j \in S : j >= n}}

RECURSIVE BitsValue(_)
BitsValue(S) ==
  IF S = {} THEN 0
  ELSE LET i == CHOOSE j \in S : TRUE IN Pow2(i) + BitsValue(S \ {i})

\* a u32 given as bits, as its four little-endian bytes
BitsToLeBytes(S) ==
  [k \in 1..4 |-> BitsValue(Shr({i \in S : i < 8 * k}, 8 * (k - 1)))]

LeBytesToBits(b) ==
  ByteBits(b[1]) \cup Shl(ByteBits(b[2]), 8) \cup Shl(ByteBits(b[3]), 16)
    \cup Shl(ByteBits(b[4]), 24)

\* a u32 given as a (small) number, as its four little-endian bytes
U32ToLeBytes(v) ==
  <<v % 256, (v \div 256) % 256, (v \div 65536) % 256, (v \div 16777216) % 256>>

LeBytesToU32(b) == b[1] + 256 * b[2] + 65536 * b[3] + 16777216 * b[4]

RECURSIVE Flatten(_)
Flatten(ss) == IF ss = <<>> THEN <<>> ELSE Head(ss) \o Flatten(Tail(ss))

Slice(s, from, len) == [k \in 1..len |-> s[from + k]]

Zeros(n) == [k \in 1..n |-> 0]

\* --------------------------------------------------------- results, panics

NoCompression == [tag |-> "-", bytes |-> <<>>]

Running == [kind |-> "running", err |-> NoCompression, msg |-> "", layers |-> <<>>]

\* Ok(layers)
Ok(ls) == [kind |-> "Ok", err |-> NoCompression, msg |-> "", layers |-> ls]

\* decode_layers' Err(compression), which Dds::decode maps to
\* DecodeError::UnsupportedCompression(compression)
Err(compression) == [kind |-> "Err", err |-> compression, msg |-> "", layers |-> <<>>]

\* another DecodeError of Dds::decode (Io, InvalidMagicBytes)
DecodeError(m) == [kind |-> "DecodeError", err |-> NoCompression, msg |-> m, layers |-> <<>>]

\* the call unwound with a panic: nothing is returned
Panic(m) == [kind |-> "panic", err |-> NoCompression, msg |-> m, layers |-> <<>>]

Val(v) == [ok |-> TRUE, val |-> v, why |-> ""]

Fail(m) == [ok |-> FALSE, val |-> 0, why |-> m]

\* ------------------------------------------------------------ lib.rs: types

\* Compression::from_bytes: the four-cc bytes and the variant they select
from_bytes(bytes) ==
  [tag |-> CASE bytes = <<0, 0, 0, 0>> -> "None"
             [] bytes = <<68, 88, 84, 49>> -> "DXT1"
             [] bytes = <<68, 88, 84, 50>> -> "DXT2"
             [] bytes = <<68, 88, 84, 51>> -> "DXT3"
             [] bytes = <<68, 88, 84, 52>> -> "DXT4"
             [] bytes = <<68, 88, 84, 53>> -> "DXT5"
             [] bytes = <<68, 88, 49, 48>> -> "DX10"
             [] OTHER -> "Other",
   bytes |-> bytes]

\* RawPixelFormat::to_pixel_format: rows (rgb_bit_count, r, g, b, a, format), masks as bit sets
PixelFormatTable ==
  << <<16, 10..14, 5..9, 0..4, {15}, "A1R5G5B5">>,
     <<32, 0..9, 10..19, 20..29, 30..31, "A2B10G10R10">>,
     <<32, 20..29, 10..19, 0..9, 30..31, "A2R10G10B10">>,
     <<8, 0..3, {}, {}, 4..7, "A4L4">>,
     <<16, 8..11, 4..7, 0..3, 12..15, "A4R4G4B4">>,
     <<8, {}, {}, {}, 0..7, "A8">>,
     <<32, 0..7, 8..15, 16..23, 24..31, "A8B8G8R8">>,
     <<16, 0..7, {}, {}, 8..15, "A8L8">>,
     <<16, 5..7, 2..4, 0..1, 8..15, "A8R3G3B2">>,
     <<32, 16..23, 8..15, 0..7, 24..31, "A8R8G8B8">>,
     <<32, 0..15, 16..31, {}, {}, "G16R16">>,
     <<16, 0..15, {}, {}, {}, "L16">>,
     <<8, 0..7, {}, {}, {}, "L8">>,
     <<16, 11..15, 5..10, 0..4, {}, "R5G6B5">>,
     <<24, 16..23, 8..15, 0..7, {}, "R8G8B8">>,
     <<16, 10..14, 5..9, 0..4, {}, "X1R5G5B5">>,
     <<16, 8..11, 4..7, 0..3, {}, "X4R4G4B4">>,
     <<32, 0..7, 8..15, 16..23, {}, "X8B8G8R8">>,
     <<32, 16..23, 8..15, 0..7, {}, "X8R8G8B8">> >>

to_pixel_format(pf) ==
  LET key == <<pf.rgb_bit_count, pf.red_bit_mask, pf.green_bit_mask,
               pf.blue_bit_mask, pf.alpha_bit_mask>>
      hits == {n \in 1..Len(PixelFormatTable) :
                 SubSeq(PixelFormatTable[n], 1, 5) = key}
  IN IF hits = {} THEN "Unknown"
     ELSE PixelFormatTable[CHOOSE n \in hits : \A m \in hits : n <= m][6]

RawPixelFormat(four_cc, count, r, g, b, a, flags) ==
  [size |-> 0, flags |-> flags, four_cc |-> four_cc, rgb_bit_count |-> count,
   red_bit_mask |-> r, green_bit_mask |-> g, blue_bit_mask |-> b,
   alpha_bit_mask |-> a]

RawHeader(size, height, width, mipmap_count, pf) ==
  [size |-> size, flags |-> 0, height |-> height, width |-> width,
   pitch_or_linear_size |-> 0, depth |-> 0, mipmap_count |-> mipmap_count,
   reserved |-> Zeros(11), pixel_format |-> pf,
   caps |-> 0, caps2 |-> 0, caps3 |-> 0, caps4 |-> 0, reserved2 |-> 0]

\* new_uncompressed writing the masks of A8R8G8B8 (red and blue exchanged)
new_uncompressed_a8r8g8b8(height, width) ==
  RawHeader(height * width * 4, height, width, 0,
            RawPixelFormat(<<0, 0, 0, 0>>, 32, 16..23, 8..15, 0..7, 24..31, 65))

\* RawHeader::new_uncompressed
new_uncompressed(height, width) ==
  RawHeader(height * width * 4, height, width, 0,
            RawPixelFormat(<<0, 0, 0, 0>>, 32, 0..7, 8..15, 16..23, 24..31, 65))

MagicBytes == <<68, 68, 83, 32>>

\* bincode::serialize of RawPixelFormat / RawHeader: the fields in declaration
\* order, each u32 as four little-endian bytes, arrays without a length prefix
SerializePixelFormat(pf) ==
  U32ToLeBytes(pf.size) \o U32ToLeBytes(pf.flags) \o pf.four_cc
    \o U32ToLeBytes(pf.rgb_bit_count)
    \o BitsToLeBytes(pf.red_bit_mask) \o BitsToLeBytes(pf.green_bit_mask)
    \o BitsToLeBytes(pf.blue_bit_mask) \o BitsToLeBytes(pf.alpha_bit_mask)

SerializeRawHeader(rh) ==
  U32ToLeBytes(rh.size) \o U32ToLeBytes(rh.flags) \o U32ToLeBytes(rh.height)
    \o U32ToLeBytes(rh.width) \o U32ToLeBytes(rh.pitch_or_linear_size)
    \o U32ToLeBytes(rh.depth) \o U32ToLeBytes(rh.mipmap_count)
    \o Flatten([k \in 1..11 |-> U32ToLeBytes(rh.reserved[k])])
    \o SerializePixelFormat(rh.pixel_format)
    \o U32ToLeBytes(rh.caps) \o U32ToLeBytes(rh.caps2) \o U32ToLeBytes(rh.caps3)
    \o U32ToLeBytes(rh.caps4) \o U32ToLeBytes(rh.reserved2)

\* RawHeader::encode
RawHeader_encode(rh) == MagicBytes \o SerializeRawHeader(rh)

\* the u32 field at byte offset `off` of the 124-byte header buffer
FieldU32(hb, off) == LeBytesToU32(Slice(hb, off, 4))

FieldBits(hb, off) == LeBytesToBits(Slice(hb, off, 4))

\* bincode::deserialize of the 124-byte header buffer
DeserializeRawHeader(hb) ==
  [size |-> FieldU32(hb, 0), flags |-> FieldU32(hb, 4), height |-> FieldU32(hb, 8),
   width |-> FieldU32(hb, 12), pitch_or_linear_size |-> FieldU32(hb, 16),
   depth |-> FieldU32(hb, 20), mipmap_count |-> FieldU32(hb, 24),
   reserved |-> [k \in 1..11 |-> FieldU32(hb, 24 + 4 * k)],
   pixel_format |->
     [size |-> FieldU32(hb, 72), flags |-> FieldU32(hb, 76),
      four_cc |-> Slice(hb, 80, 4), rgb_bit_count |-> FieldU32(hb, 84),
      red_bit_mask |-> FieldBits(hb, 88), green_bit_mask |-> FieldBits(hb, 92),
      blue_bit_mask |-> FieldBits(hb, 96), alpha_bit_mask |-> FieldBits(hb, 100)],
   caps |-> FieldU32(hb, 104), caps2 |-> FieldU32(hb, 108),
   caps3 |-> FieldU32(hb, 112), caps4 |-> FieldU32(hb, 116),
   reserved2 |-> FieldU32(hb, 120)]

\* RawHeader::decode: the magic bytes, then the 124-byte header
RawHeader_decode(bytes) ==
  IF Len(bytes) < 4 THEN Fail("Io: failed to fill whole buffer")
  ELSE IF SubSeq(bytes, 1, 4) # MagicBytes THEN Fail("InvalidMagicBytes")
  ELSE IF Len(bytes) < 128 THEN Fail("Io: failed to fill whole buffer")
  ELSE Val(DeserializeRawHeader(Slice(bytes, 4, 124)))

\* Header::decode: the fields of Header taken from a RawHeader
Header_decode(rh) ==
  [height |-> rh.height,
   width |-> rh.width,
   mipmap_count |-> rh.mipmap_count,
   compression |-> from_bytes(rh.pixel_format.four_cc),
   fourcc |-> rh.pixel_format.four_cc,
   pixel_format |-> to_pixel_format(rh.pixel_format),
   pixel_bytes |-> rh.pixel_format.rgb_bit_count \div 8,
   channel_masks |-> <<rh.pixel_format.red_bit_mask, rh.pixel_format.green_bit_mask,
                       rh.pixel_format.blue_bit_mask, rh.pixel_format.alpha_bit_mask>>]

\* v / 2u32.pow(i) for i < 32 (2^31 itself is not a TLC integer)
DivPow2(v, i) == IF i <= 30 THEN v \div Pow2(i) ELSE (v \div Pow2(30)) \div Pow2(i - 30)

\* Header::get_layer_sizes.  2u32.pow(i) overflows for i >= 32: a panic with
\* overflow checks, and without them it wraps to 0 and the division panics.
get_layer_sizes(hd, checks) ==
  LET count == Max(hd.mipmap_count, 1)
  IN IF count > 32
     THEN Fail(IF checks THEN "attempt to multiply with overflow"
               ELSE "attempt to divide by zero")
     ELSE Val([i \in 1..count |->
                 <<DivPow2(hd.height, i - 1), DivPow2(hd.width, i - 1)>>])

\* ------------------------------------------- format.rs: uncompressed path

trailing_zeros(mask) ==
  IF mask = {} THEN 32 ELSE CHOOSE i \in mask : \A j \in mask : i <= j

count_ones(mask) == Cardinality(mask)

\* 2u32.pow(n) - 1 for 1 <= n <= 31
Pow2Minus1(n) == IF n <= 30 THEN Pow2(n) - 1 ELSE (Pow2(30) - 1) + Pow2(30)

\* uncompressed_convert_mask.  `*` and `/` bind tighter than `>>`, so the code
\* shifts (pixel & mask) right by  trailing_zeros * 255 / (2^count_ones - 1)
\* and keeps the low byte (`as u8`).  A zero mask divides by zero; a shift
\* amount of 32 or more panics with overflow checks and is taken modulo 32
\* without them; 2u32.pow(32) panics with overflow checks and wraps without.
uncompressed_convert_mask(pixel, mask, checks) ==
  LET tz == trailing_zeros(mask)
      ones == count_ones(mask)
  IN IF ones = 0 THEN Fail("attempt to divide by zero")
     ELSE IF ones = 32
     THEN (IF checks THEN Fail("attempt to multiply with overflow")
           ELSE Val(BitsValue({i \in pixel \cap mask : i < 8})))
     ELSE LET amount == (tz * 255) \div Pow2Minus1(ones)
          IN IF amount >= 32 /\ checks
             THEN Fail("attempt to shift right with overflow")
             ELSE Val(BitsValue({i \in Shr(pixel \cap mask, amount % 32) : i < 8}))

\* format.rs line 23: the four bytes p[0..3] of a chunk as one u32
PixelWord(p) == LeBytesToBits(p)

\* format.rs lines 22-31 for one chunk: the pixel, or the first panic
ConvertPixel(p, hd, checks) ==
  IF Len(p) < 4 THEN Fail("index out of bounds")
  ELSE LET pixel == PixelWord(p)
           ch == [c \in 1..4 |->
                    uncompressed_convert_mask(pixel, hd.channel_masks[c], checks)]
           bad == {c \in 1..4 : ~ch[c].ok}
       IN IF bad # {}
          THEN Fail(ch[CHOOSE c \in bad : \A d \in bad : c <= d].why)
          ELSE Val([c \in 1..4 |-> ch[c].val])

\* the first failure of a sequence of results, or the sequence of their values
Collect(rs) ==
  LET bad == {n \in 1..Len(rs) : ~rs[n].ok}
  IN IF bad # {} THEN Fail(rs[CHOOSE n \in bad : \A m \in bad : n <= m].why)
     ELSE Val([n \in 1..Len(rs) |-> rs[n].val])

\* RgbaImage::from_raw(width, height, data).expect(..)
from_raw(width, height, data) ==
  IF Len(data) < width * height * 4
  THEN Fail("error converting bytes to image buffer")
  ELSE Val([width |-> width, height |-> height, data |-> data])

\* one iteration of decode_layers_uncompressed's loop over layer_sizes, on the
\* bytes `rest` still in buf: the image and the bytes split off, or the panic
UncompressedLayer(hd, rest, h, w, checks) ==
  LET layer_size == h * w * hd.pixel_bytes
  IN IF layer_size > Len(rest) THEN Fail("split_at: mid > len")
     ELSE IF hd.pixel_bytes = 0 THEN Fail("attempt to divide by zero")
     ELSE LET layer_data == SubSeq(rest, 1, layer_size)
              n == layer_size \div hd.pixel_bytes
              px == Collect([k \in 1..n |->
                      ConvertPixel(Slice(layer_data, (k - 1) * hd.pixel_bytes,
                                         hd.pixel_bytes), hd, checks)])
          IN IF ~px.ok THEN px
             ELSE LET img == from_raw(w, h, Flatten(px.val))
                  IN IF ~img.ok THEN img
                     ELSE Val([image |-> img.val, used |-> layer_size])

\* --------------------------------------------------- format.rs: DXT path

\* the channels of a packed RGB565 colour (format.rs lines 81-86)
Red565(c) == c \div 2048

Green565(c) == (c \div 32) % 64

Blue565(c) == c % 32

\* 5/6-bit channel inflated to 8 bits
Inflate(c, inflate_by) == (c * 255) \div (Pow2(inflate_by) - 1)

Some(v) == [some |-> TRUE, v |-> v]

None == [some |-> FALSE, v |-> 0]

unwrap_or(o, d) == IF o.some THEN o.v ELSE d

\* dxt1_lookup using the thirds of the four-colour table for code 2 in both
\* orders of the endpoints
dxt1_lookup_thirds(gt, code, c0raw, c1raw, inflate_by) ==
  LET c0 == Inflate(c0raw, inflate_by)
      c1 == Inflate(c1raw, inflate_by)
  IN CASE code = 0 -> Some(c0)
       [] code = 1 -> Some(c1)
       [] code = 2 -> Some((2 * c0 + c1) \div 3)
       [] gt /\ code = 3 -> Some((c0 + 2 * c1) \div 3)
       [] ~gt /\ code = 3 -> None

\* dxt1_lookup, key = (gt, code)
dxt1_lookup(gt, code, c0raw, c1raw, inflate_by) ==
  LET c0 == Inflate(c0raw, inflate_by)
      c1 == Inflate(c1raw, inflate_by)
  IN CASE gt /\ code = 0 -> Some(c0)
       [] gt /\ code = 1 -> Some(c1)
       [] gt /\ code = 2 -> Some((2 * c0 + c1) \div 3)
       [] gt /\ code = 3 -> Some((c0 + 2 * c1) \div 3)
       [] ~gt /\ code = 0 -> Some(c0)
       [] ~gt /\ code = 1 -> Some(c1)
       [] ~gt /\ code = 2 -> Some((c0 + c1) \div 2)
       [] ~gt /\ code = 3 -> None

\* the 2-bit colour selector i of an index byte
Code2(code, i) == (code \div Pow2(2 * i)) % 4

\* decode_chunk_dxt1: sample t = 4*n + i + 1, n the position in the reversed
\* index bytes (bytes[7] first), i the selector within the byte
decode_chunk_dxt1(bytes, alpha) ==
  LET color0 == bytes[2] * 256 + bytes[1]
      color1 == bytes[4] * 256 + bytes[3]
  IN [t \in 1..16 |->
        LET n == (t - 1) \div 4
            i == (t - 1) % 4
            code == Code2(bytes[8 - n], i)
            gt == color0 > color1
            r == dxt1_lookup(gt, code, Red565(color0), Red565(color1), 5)
            g == dxt1_lookup(gt, code, Green565(color0), Green565(color1), 6)
            b == dxt1_lookup(gt, code, Blue565(color0), Blue565(color1), 5)
            a == IF ~alpha \/ r.some \/ g.some \/ b.some THEN 255 ELSE 0
        IN <<unwrap_or(r, 0) % 256, unwrap_or(g, 0) % 256,
             unwrap_or(b, 0) % 256, a>>]

\* dxt3_lookup
dxt3_lookup(key, c0raw, c1raw, inflate_by) ==
  LET c0 == Inflate(c0raw, inflate_by)
      c1 == Inflate(c1raw, inflate_by)
  IN CASE key = 0 -> c0
       [] key = 1 -> c1
       [] key = 2 -> (2 * c0 + c1) \div 3
       [] key = 3 -> (c0 + 2 * c1) \div 3

\* decode_chunk_dxt3
decode_chunk_dxt3(bytes) ==
  LET color0 == bytes[10] * 256 + bytes[9]
      color1 == bytes[12] * 256 + bytes[11]
  IN [t \in 1..16 |->
        LET i == (t - 1) \div 4
            j == (t - 1) % 4
            alpha_nibble ==
              (bytes[2 * (3 - i) + (j \div 2) + 1] \div Pow2(4 * (j % 2))) % 16
            key == Code2(bytes[16 - i], j)
        IN <<dxt3_lookup(key, Red565(color0), Red565(color1), 5) % 256,
             dxt3_lookup(key, Green565(color0), Green565(color1), 6) % 256,
             dxt3_lookup(key, Blue565(color0), Blue565(color1), 5) % 256,
             ((alpha_nibble * 255) \div 15) % 256>>]

\* dxt5_lookup
dxt5_lookup(key, c0raw, c1raw, inflate_by) ==
  LET c0 == Inflate(c0raw, inflate_by)
      c1 == Inflate(c1raw, inflate_by)
  IN CASE key = 0 -> c0
       [] key = 1 -> c1
       [] key = 2 -> (2 * c0 + c1) \div 3
       [] key = 3 -> (c0 + 2 * c1) \div 3

\* the 7-step table used whatever the order of the endpoints
dxt5_alpha_interp_7step(alpha0, alpha1, key) ==
  CASE key = 0 -> alpha0
    [] key = 1 -> alpha1
    [] OTHER -> ((8 - key) * alpha0 + (key - 1) * alpha1) \div 7

\* dxt5_alpha_interp
dxt5_alpha_interp(alpha0, alpha1, key) ==
  LET gt == alpha0 > alpha1
  IN CASE gt /\ key = 0 -> alpha0
       [] gt /\ key = 1 -> alpha1
       [] gt /\ key = 2 -> (6 * alpha0 + 1 * alpha1) \div 7
       [] gt /\ key = 3 -> (5 * alpha0 + 2 * alpha1) \div 7
       [] gt /\ key = 4 -> (4 * alpha0 + 3 * alpha1) \div 7
       [] gt /\ key = 5 -> (3 * alpha0 + 4 * alpha1) \div 7
       [] gt /\ key = 6 -> (2 * alpha0 + 5 * alpha1) \div 7
       [] gt /\ key = 7 -> (1 * alpha0 + 6 * alpha1) \div 7
       [] ~gt /\ key = 0 -> alpha0
       [] ~gt /\ key = 1 -> alpha1
       [] ~gt /\ key = 2 -> (4 * alpha0 + 1 * alpha1) \div 5
       [] ~gt /\ key = 3 -> (3 * alpha0 + 2 * alpha1) \div 5
       [] ~gt /\ key = 4 -> (2 * alpha0 + 3 * alpha1) \div 5
       [] ~gt /\ key = 5 -> (1 * alpha0 + 4 * alpha1) \div 5
       [] ~gt /\ key = 6 -> 0
       [] ~gt /\ key = 7 -> 255

\* bit n of alpha_info, the 48-bit little-endian number made of bytes[2..8)
AlphaInfoBit(bytes, n) == (bytes[3 + (n \div 8)] \div Pow2(n % 8)) % 2

\* (alpha_info >> shift) & 0x07
AlphaKey(bytes, shift) ==
  AlphaInfoBit(bytes, shift) + 2 * AlphaInfoBit(bytes, shift + 1)
    + 4 * AlphaInfoBit(bytes, shift + 2)

\* decode_chunk_dxt5
decode_chunk_dxt5(bytes) ==
  LET color0 == bytes[10] * 256 + bytes[9]
      color1 == bytes[12] * 256 + bytes[11]
      alpha0 == bytes[1]
      alpha1 == bytes[2]
  IN [t \in 1..16 |->
        LET i == (t - 1) \div 4
            j == (t - 1) % 4
            alpha_key == AlphaKey(bytes, 3 * (4 * (3 - i) + j))
            alpha == dxt5_alpha_interp(alpha0, alpha1, alpha_key)
            key == Code2(bytes[16 - i], j)
        IN <<dxt5_lookup(key, Red565(color0), Red565(color1), 5) % 256,
             dxt5_lookup(key, Green565(color0), Green565(color1), 6) % 256,
             dxt5_lookup(key, Blue565(color0), Blue565(color1), 5) % 256,
             alpha % 256>>]

\* dxt_chunk_transform passing `header.pixel_format == PixelFormat::Unknown`
dxt_chunk_transform_eq_unknown(chunk, hd) ==
  CASE hd.compression.tag = "DXT1" ->
         decode_chunk_dxt1(chunk, hd.pixel_format = "Unknown")
    [] hd.compression.tag \in {"DXT2", "DXT3"} -> decode_chunk_dxt3(chunk)
    [] hd.compression.tag \in {"DXT4", "DXT5"} -> decode_chunk_dxt5(chunk)

\* dxt_chunk_transform
dxt_chunk_transform(chunk, hd) ==
  CASE hd.compression.tag = "DXT1" ->
         decode_chunk_dxt1(chunk, hd.pixel_format # "Unknown")
    [] hd.compression.tag \in {"DXT2", "DXT3"} -> decode_chunk_dxt3(chunk)
    [] hd.compression.tag \in {"DXT4", "DXT5"} -> decode_chunk_dxt5(chunk)

\* dxt_transpose_texels iterating `for i in 0..4`: the block-local rows
\* emitted in the order the block decoders produce them
dxt_transpose_texels_forward(chunk, w, width) ==
  Flatten([r \in 1..4 |->
    LET i == r - 1
    IN Flatten([jj \in 1..(w \div 4) |->
         LET j == jj - 1
         IN [k \in 1..(IF j + 1 = w \div 4 THEN 4 - (w - width) ELSE 4) |->
               chunk[(i + j * 4) * 4 + k]]])])

\* the last block column not cropped
block_width_uncropped(j, w, width) == 4

\* the width of block column j of a band (format.rs line 250)
block_width(j, w, width) == IF j + 1 = w \div 4 THEN 4 - (w - width) ELSE 4

\* dxt_transpose_texels: chunk is one band of 4*w samples, block after block
dxt_transpose_texels(chunk, w, width) ==
  Flatten([r \in 1..4 |->
    LET i == 4 - r
    IN Flatten([jj \in 1..(w \div 4) |->
         LET j == jj - 1
         IN [k \in 1..block_width(j, w, width) |-> chunk[(i + j * 4) * 4 + k]]])])

\* (x.max(4) as f32 / 4.0).ceil() as usize * 4, exact for x below 2^24
RoundUp4(x) == ((Max(x, 4) + 3) \div 4) * 4

\* s.chunks(n) for a sequence whose length is a multiple of n
Chunks(s, n) == [c \in 1..(Len(s) \div n) |-> Slice(s, (c - 1) * n, n)]

\* format.rs lines 284-296: the pixels emitted for one layer, before the
\* truncation: blocks decoded, grouped in bands of 4*w samples, transposed
DxtPixels(hd, layer_data, chunk_size, w, width) ==
  LET blocks == Chunks(layer_data, chunk_size)
      texels == Flatten([c \in 1..Len(blocks) |->
                           dxt_chunk_transform(blocks[c], hd)])
      bands == Chunks(texels, 4 * w)
  IN Flatten([c \in 1..Len(bands) |-> dxt_transpose_texels(bands[c], w, width)])

\* one iteration of decode_layers_dxt's loop over layer_sizes
DxtLayer(hd, rest, height, width) ==
  LET h == RoundUp4(height)
      w == RoundUp4(width)
      layer_size == IF hd.compression.tag = "DXT1" THEN (h * w) \div 2 ELSE h * w
      chunk_size == IF hd.compression.tag = "DXT1" THEN 8 ELSE 16
  IN IF layer_size > Len(rest) THEN Fail("split_at: mid > len")
     ELSE LET layer_data == SubSeq(rest, 1, layer_size)
              layer == DxtPixels(hd, layer_data, chunk_size, w, width)
              bytes == Flatten(layer)
              truncated == SubSeq(bytes, 1, Min(Len(bytes), width * height * 4))
              img == from_raw(width, height, truncated)
          IN IF ~img.ok THEN img
             ELSE Val([image |-> img.val, used |-> layer_size])

\* ------------------------------------------------------------------ inputs

NoHeader ==
  [height |-> 0, width |-> 0, mipmap_count |-> 0, compression |-> NoCompression,
   fourcc |-> <<>>, pixel_format |-> "-", pixel_bytes |-> 0,
   channel_masks |-> <<{}, {}, {}, {}>>]

NoImage == [width |-> 0, height |-> 0, data |-> <<>>]

NoCall == [f |-> "-", pixel |-> {}, mask |-> {}, alpha0 |-> 0, alpha1 |-> 0, key |-> 0]

NoRet == Val(0)

\* the pixel-format parts of the headers fed to decode_layers: uncompressed
\* formats of 4, 3, 2 and 1 bytes per pixel, DXT1..DXT5 files (without and with
\* a recognised legacy pixel format), and two unsupported four-cc codes
PixelFormats ==
  { RawPixelFormat(<<0, 0, 0, 0>>, 32, 0..7, 8..15, 16..23, 24..31, 65),   \* A8B8G8R8
    RawPixelFormat(<<0, 0, 0, 0>>, 32, 16..23, 8..15, 0..7, {}, 64),       \* X8R8G8B8
    RawPixelFormat(<<0, 0, 0, 0>>, 32, 0..9, 10..19, 20..29, 30..31, 65),  \* A2B10G10R10
    RawPixelFormat(<<0, 0, 0, 0>>, 24, 16..23, 8..15, 0..7, {}, 64),       \* R8G8B8
    RawPixelFormat(<<0, 0, 0, 0>>, 16, 11..15, 5..10, 0..4, {}, 64),       \* R5G6B5
    RawPixelFormat(<<0, 0, 0, 0>>, 8, 0..7, {}, {}, {}, 131072),           \* L8
    RawPixelFormat(<<68, 88, 84, 49>>, 0, {}, {}, {}, {}, 4),              \* DXT1
    RawPixelFormat(<<68, 88, 84, 49>>, 32, 16..23, 8..15, 0..7, 24..31, 4),\* DXT1, A8R8G8B8
    RawPixelFormat(<<68, 88, 84, 50>>, 0, {}, {}, {}, {}, 4),              \* DXT2
    RawPixelFormat(<<68, 88, 84, 51>>, 0, {}, {}, {}, {}, 4),              \* DXT3
    RawPixelFormat(<<68, 88, 84, 52>>, 0, {}, {}, {}, {}, 4),              \* DXT4
    RawPixelFormat(<<68, 88, 84, 53>>, 0, {}, {}, {}, {}, 4),              \* DXT5
    RawPixelFormat(<<68, 88, 49, 48>>, 0, {}, {}, {}, {}, 4),              \* DX10
    RawPixelFormat(<<65, 84, 73, 50>>, 0, {}, {}, {}, {}, 4) }             \* ATI2

Headers ==
  { Header_decode(RawHeader(124, h, w, m, pf)) :
      h \in 0..MaxDim, w \in 0..MaxDim, m \in 0..MaxMip, pf \in PixelFormats }

Supported == {"None", "DXT1", "DXT2", "DXT3", "DXT4", "DXT5"}

\* the bytes level i (0-based) of the header takes from the buffer: layer_size
\* of format.rs line 16 and lines 270-279 (any other four-cc: as DXT2-5, only
\* to size the buffers of Init)
LevelSpan(hd, i) ==
  LET h == hd.height \div Pow2(i)
      w == hd.width \div Pow2(i)
  IN CASE hd.compression.tag = "None" -> h * w * hd.pixel_bytes
       [] hd.compression.tag = "DXT1" -> (RoundUp4(h) * RoundUp4(w)) \div 2
       [] OTHER -> RoundUp4(h) * RoundUp4(w)

RECURSIVE SpanSum(_, _)
SpanSum(hd, n) == IF n = 0 THEN 0 ELSE SpanSum(hd, n - 1) + LevelSpan(hd, n - 1)

LevelCount(hd) == Max(hd.mipmap_count, 1)

Required(hd) == SpanSum(hd, LevelCount(hd))

\* buffer contents: byte k (0-based) of pattern `seed`
PatternByte(seed, k) == (seed + 37 * k + 11 * (k \div 8)) % 256

PatternBuf(seed, n) == [k \in 1..n |-> PatternByte(seed, k - 1)]

Seeds == {0, 201}

\* buffers one byte short of, exactly, and one byte more than what the levels need
Buffers(hd) ==
  { PatternBuf(seed, Required(hd) + extra) :
      seed \in Seeds, extra \in {e \in {-1, 0, 1} : Required(hd) + e >= 0} }

\* ------------------------------------------------------------- state machine

\* a call of decode_layers(header, buf)
Init ==
  /\ overflow_checks \in BOOLEAN
  /\ header \in Headers
  /\ buf \in Buffers(header)
  /\ image = NoImage
  /\ stream = <<>>
  /\ cursor = 0
  /\ layer_sizes = <<>>
  /\ level = 1
  /\ layers = <<>>
  /\ result = Running
  /\ pc = "decode_layers"
  /\ call = NoCall
  /\ ret = NoRet

\* the match sending DX10 to the DXT decoder
decode_layers_arm_dx10(compression) ==
  CASE compression.tag = "None" -> "uncompressed"
    [] compression.tag \in {"DXT1", "DXT2", "DXT3", "DXT4", "DXT5", "DX10"} -> "dxt"
    [] OTHER -> "Err"

\* decode_layers' match on header.compression: the arm taken
decode_layers_arm(compression) ==
  CASE compression.tag = "None" -> "uncompressed"
    [] compression.tag \in {"DXT1", "DXT2", "DXT3", "DXT4", "DXT5"} -> "dxt"
    [] OTHER -> "Err"

\* the bytes still in the `buf` slice
Rest == SubSeq(buf, cursor + 1, Len(buf))

\* decode_layers: the match on header.compression, and the head of
\* decode_layers_uncompressed / decode_layers_dxt (get_layer_sizes)
DecodeLayers ==
  /\ pc = "decode_layers"
  /\ IF decode_layers_arm(header.compression) = "Err"
     THEN /\ result' = Err(header.compression)
          /\ pc' = "done"
          /\ UNCHANGED layer_sizes
     ELSE LET sizes == get_layer_sizes(header, overflow_checks)
          IN IF sizes.ok
             THEN /\ layer_sizes' = sizes.val
                  /\ pc' = "layers"
                  /\ UNCHANGED result
             ELSE /\ result' = Panic(sizes.why)
                  /\ pc' = "done"
                  /\ UNCHANGED layer_sizes
  /\ UNCHANGED <<overflow_checks, image, stream, header, buf, cursor, level,
                 layers, call, ret>>

\* a loop iteration that drops `buf = new_buf`: the slice is never advanced
Iterate_no_advance(r) ==
  IF r.ok
  THEN /\ layers' = Append(layers, r.val.image)
       /\ cursor' = cursor
       /\ level' = level + 1
       /\ UNCHANGED <<result, pc>>
  ELSE /\ result' = Panic(r.why)
       /\ layers' = <<>>
       /\ pc' = "done"
       /\ UNCHANGED <<cursor, level>>

\* what one loop iteration leaves: the layer pushed and the slice advanced, or
\* the panic unwinding the call (the local Vec is dropped)
Iterate(r) ==
  IF r.ok
  THEN /\ layers' = Append(layers, r.val.image)
       /\ cursor' = cursor + r.val.used
       /\ level' = level + 1
       /\ UNCHANGED <<result, pc>>
  ELSE /\ result' = Panic(r.why)
       /\ layers' = <<>>
       /\ pc' = "done"
       /\ UNCHANGED <<cursor, level>>

\* one iteration of the loop of decode_layers_uncompressed
NextUncompressedLayer ==
  /\ pc = "layers"
  /\ decode_layers_arm(header.compression) = "uncompressed"
  /\ level <= Len(layer_sizes)
  /\ Iterate(UncompressedLayer(header, Rest, layer_sizes[level][1],
                               layer_sizes[level][2], overflow_checks))
  /\ UNCHANGED <<overflow_checks, image, stream, header, buf, layer_sizes, call, ret>>

\* one iteration of the loop of decode_layers_dxt
NextDxtLayer ==
  /\ pc = "layers"
  /\ decode_layers_arm(header.compression) = "dxt"
  /\ level <= Len(layer_sizes)
  /\ Iterate(DxtLayer(header, Rest, layer_sizes[level][1], layer_sizes[level][2]))
  /\ UNCHANGED <<overflow_checks, image, stream, header, buf, layer_sizes, call, ret>>

\* the loop is over: Ok(layers)
Return ==
  /\ pc = "layers"
  /\ level > Len(layer_sizes)
  /\ result' = Ok(layers)
  /\ pc' = "done"
  /\ UNCHANGED <<overflow_checks, image, stream, header, buf, cursor, layer_sizes,
                 level, layers, call, ret>>

Next == DecodeLayers \/ NextUncompressedLayer \/ NextDxtLayer \/ Return

Spec == Init /\ [][Next]_vars

\* ---------------------------------------- Dds::encode_uncompressed / decode

\* image contents: byte k (0-based) of the raw buffer
ImageByte(seed, step, k) == (seed + step * k) % 256

Images ==
  { [width |-> w, height |-> h,
     data |-> [k \in 1..(w * h * 4) |-> ImageByte(seed, step, k - 1)]] :
      w \in 0..MaxImgDim, h \in 0..MaxImgDim,
      seed \in {0, 100, 255}, step \in {0, 1, 85, 255} }

\* a call of Dds::encode_uncompressed(writer, image), then of Dds::decode on
\* the bytes written
InitRoundTrip ==
  /\ overflow_checks \in BOOLEAN
  /\ image \in Images
  /\ stream = <<>>
  /\ header = NoHeader
  /\ buf = <<>>
  /\ cursor = 0
  /\ layer_sizes = <<>>
  /\ level = 1
  /\ layers = <<>>
  /\ result = Running
  /\ pc = "encode"
  /\ call = NoCall
  /\ ret = NoRet

\* Dds::encode_uncompressed: the header of new_uncompressed(height, width),
\* then the image's raw bytes
EncodeUncompressed ==
  /\ pc = "encode"
  /\ stream' = RawHeader_encode(new_uncompressed(image.height, image.width))
                 \o image.data
  /\ pc' = "decode"
  /\ UNCHANGED <<overflow_checks, image, header, buf, cursor, layer_sizes, level,
                 layers, result, call, ret>>

\* Dds::decode up to the call of decode_layers: Header::decode, read_to_end
DdsDecode ==
  /\ pc = "decode"
  /\ LET raw == RawHeader_decode(stream)
     IN IF raw.ok
        THEN /\ header' = Header_decode(raw.val)
             /\ buf' = SubSeq(stream, 129, Len(stream))
             /\ pc' = "decode_layers"
             /\ UNCHANGED result
        ELSE /\ result' = DecodeError(raw.why)
             /\ pc' = "done"
             /\ UNCHANGED <<header, buf>>
  /\ UNCHANGED <<overflow_checks, image, stream, cursor, layer_sizes, level,
                 layers, call, ret>>

NextRoundTrip ==
  EncodeUncompressed \/ DdsDecode \/ DecodeLayers \/ NextUncompressedLayer \/ Return

SpecRoundTrip == InitRoundTrip /\ [][NextRoundTrip]_vars

\* ------------------------------------------------ Header::get_layer_sizes

\* base dimensions across the u32 range (up to 2^31 - 1, TLC's largest integer)
SizeDims == {0, 1, 5, 1000, 65536, 2147483647}

\* a call of get_layer_sizes on a header with any stored mip count
InitSizes ==
  /\ overflow_checks \in BOOLEAN
  /\ header \in { Header_decode(RawHeader(124, h, w, m,
                    RawPixelFormat(<<0, 0, 0, 0>>, 32, 0..7, 8..15, 16..23, 24..31, 65))) :
                    h \in SizeDims, w \in SizeDims, m \in 0..MaxSizesMip }
  /\ image = NoImage
  /\ stream = <<>>
  /\ buf = <<>>
  /\ cursor = 0
  /\ layer_sizes = <<>>
  /\ level = 1
  /\ layers = <<>>
  /\ result = Running
  /\ pc = "get_layer_sizes"
  /\ call = NoCall
  /\ ret = NoRet

CallGetLayerSizes ==
  /\ pc = "get_layer_sizes"
  /\ ret' = get_layer_sizes(header, overflow_checks)
  /\ pc' = "done"
  /\ UNCHANGED <<overflow_checks, image, stream, header, buf, cursor, layer_sizes,
                 level, layers, result, call>>

SpecSizes == InitSizes /\ [][CallGetLayerSizes]_vars

\* ------------------------------------------------------ dxt5_alpha_interp

InitPure(calls, builds) ==
  /\ overflow_checks \in builds
  /\ call \in calls
  /\ image = NoImage
  /\ stream = <<>>
  /\ header = NoHeader
  /\ buf = <<>>
  /\ cursor = 0
  /\ layer_sizes = <<>>
  /\ level = 1
  /\ layers = <<>>
  /\ result = Running
  /\ pc = "call"
  /\ ret = NoRet

\* the alpha endpoints: every byte value
AlphaValues == 0..255

InitAlpha ==
  InitPure({ [NoCall EXCEPT !.f = "dxt5_alpha_interp", !.alpha0 = a0,
                            !.alpha1 = a1, !.key = k] :
               a0 \in AlphaValues, a1 \in AlphaValues, k \in 0..7 }, {FALSE})

CallAlphaInterp ==
  /\ pc = "call"
  /\ call.f = "dxt5_alpha_interp"
  /\ ret' = Val(dxt5_alpha_interp(call.alpha0, call.alpha1, call.key))
  /\ pc' = "done"
  /\ UNCHANGED <<overflow_checks, image, stream, header, buf, cursor, layer_sizes,
                 level, layers, result, call>>

SpecAlpha == InitAlpha /\ [][CallAlphaInterp]_vars

\* ---------------------------------------------- uncompressed_convert_mask

\* channel masks: `len` contiguous one-bits from bit `pos`, the zero mask and
\* the full mask
MaskLens == {1, 2, 4, 5, 6, 8, 10, 16}

MaskPositions == {0, 4, 5, 8, 10, 11, 16, 20, 24, 30}

Masks ==
  { pl[1]..(pl[1] + pl[2] - 1) :
      pl \in {q \in MaskPositions \X MaskLens : q[1] + q[2] <= 32} }
    \cup {{}, 0..31}

PixelWords == { LeBytesToBits(<<b0, b1, b2, b3>>) : b0, b1, b2, b3 \in {0, 2, 165, 255} }

InitMask ==
  InitPure({ [NoCall EXCEPT !.f = "uncompressed_convert_mask", !.pixel = px, !.mask = m] :
               px \in PixelWords, m \in Masks }, BOOLEAN)

CallConvertMask ==
  /\ pc = "call"
  /\ call.f = "uncompressed_convert_mask"
  /\ ret' = uncompressed_convert_mask(call.pixel, call.mask, overflow_checks)
  /\ pc' = "done"
  /\ UNCHANGED <<overflow_checks, image, stream, header, buf, cursor, layer_sizes,
                 level, layers, result, call>>

SpecMask == InitMask /\ [][CallConvertMask]_vars

\* ------------------------------------------------------ dxt_chunk_transform

\* a packed RGB565 colour
Pack565(r, g, b) == r * 2048 + g * 32 + b

\* block endpoints: every 5-bit red and blue value (in opposite orders),
\* every 6-bit green value, black and white
Endpoints ==
  { Pack565(v, 63 - 2 * v, 31 - v) : v \in 0..31 }
    \cup { Pack565(0, 2 * g, 0) : g \in 0..31 }
    \cup { Pack565(31, 63, 31) }

\* the four index bytes of a block: every selector in every column and row
IndexBytes ==
  { <<27, 228, 141, 114>>, <<0, 85, 170, 255>>, <<228, 27, 114, 141>>,
    <<255, 170, 85, 0>> }

\* an 8-byte DXT1 block: color0, color1 (little-endian), then the index bytes
Dxt1Block(color0, color1, idx) ==
  <<color0 % 256, color0 \div 256, color1 % 256, color1 \div 256>> \o idx

\* the headers of DXT1 files, with and without a recognised pixel format
Dxt1Headers == { hd \in Headers : hd.compression.tag = "DXT1" /\ hd.height = 4
                                    /\ hd.width = 4 /\ hd.mipmap_count = 0 }

\* a call of dxt_chunk_transform(chunk, header) on one DXT1 block
InitDxt1 ==
  /\ overflow_checks = FALSE
  /\ header \in Dxt1Headers
  /\ buf \in { Dxt1Block(c0, c1, idx) :
                 c0 \in Endpoints, c1 \in Endpoints, idx \in IndexBytes }
  /\ image = NoImage
  /\ stream = <<>>
  /\ cursor = 0
  /\ layer_sizes = <<>>
  /\ level = 1
  /\ layers = <<>>
  /\ result = Running
  /\ pc = "call"
  /\ call = [NoCall EXCEPT !.f = "dxt_chunk_transform"]
  /\ ret = NoRet

CallChunkTransform ==
  /\ pc = "call"
  /\ call.f = "dxt_chunk_transform"
  /\ ret' = Val(dxt_chunk_transform(buf, header))
  /\ pc' = "done"
  /\ UNCHANGED <<overflow_checks, image, stream, header, buf, cursor, layer_sizes,
                 level, layers, result, call>>

SpecDxt1 == InitDxt1 /\ [][CallChunkTransform]_vars

\* ------------------------------------------------------------------ claims

\* pixel (x, y) of an image, as its four bytes
PixelAt(img, x, y) == Slice(img.data, (y * img.width + x) * 4, 4)

\* C1: an RGBA8 image written by Dds::encode_uncompressed and read back by
\* Dds::decode gives Ok with exactly one layer, whose width, height and bytes
\* are those of the image; no step of the two calls fails or panics.
C1_RoundTrip ==
  /\ pc = "done" =>
       /\ result.kind = "Ok"
       /\ Len(result.layers) = 1
       /\ result.layers[1].width = image.width
       /\ result.layers[1].height = image.height
       /\ Len(result.layers[1].data) = Len(image.data)
       /\ \A k \in 1..Len(image.data) : result.layers[1].data[k] = image.data[k]
  /\ result.kind \in {"running", "Ok"}
  /\ pc = "layers" => decode_layers_arm(header.compression) = "uncompressed"

\* a 3x2 image with differing bytes has come back
C1_Witness ==
  /\ pc = "done"
  /\ result.kind = "Ok"
  /\ image.width = 3 /\ image.height = 2
  /\ image.data[1] # image.data[3]
  /\ result.layers[1].data[3] = image.data[3]
  /\ Len(stream) = 128 + 24

\* C2 (as claimed): for every header with compression None or DXT1..DXT5 and
\* a buffer holding all the bytes the levels require, decode_layers returns
\* max(mipmap_count, 1) images, each of width*height*4 bytes.
C2_AllLevelsDecoded ==
  (/\ pc = "done"
   /\ header.compression.tag \in Supported
   /\ Len(buf) >= Required(header))
  => /\ result.kind = "Ok"
     /\ Len(result.layers) = LevelCount(header)
     /\ \A i \in 1..Len(result.layers) :
          Len(result.layers[i].data)
            = result.layers[i].width * result.layers[i].height * 4

\* C3: with a compression tag other than None and DXT1..DXT5 the call ends at
\* once with Err carrying the header's tag: no layer sizes are computed, no
\* byte is split off the buffer, no layer is built or returned.
C3_UnsupportedFailsAtOnce ==
  header.compression.tag \in {"DX10", "Other"}
  => /\ pc \in {"decode_layers", "done"}
     /\ cursor = 0
     /\ layers = <<>>
     /\ layer_sizes = <<>>
     /\ pc = "done" =>
          /\ result.kind = "Err"
          /\ result.err = header.compression
          /\ result.err.bytes = header.fourcc
          /\ result.layers = <<>>

\* an ATI2 header with a non-empty buffer has been refused
C3_Witness ==
  /\ pc = "done"
  /\ header.compression.tag = "Other"
  /\ header.fourcc = <<65, 84, 73, 50>>
  /\ Len(buf) > 0
  /\ result.kind = "Err"
  /\ result.err.bytes = <<65, 84, 73, 50>>

\* the bytes the level about to be decoded takes, as the code computes them
CurrentSpan ==
  LET h == layer_sizes[level][1]
      w == layer_sizes[level][2]
  IN CASE header.compression.tag = "None" -> h * w * header.pixel_bytes
       [] header.compression.tag = "DXT1" -> (RoundUp4(h) * RoundUp4(w)) \div 2
       [] OTHER -> RoundUp4(h) * RoundUp4(w)

\* C4 (as claimed): when fewer bytes remain than the level's span, the call
\* ends with an error value returned to the caller, not with a panic.
C4_ShortBufferIsAnError ==
  (/\ pc = "done"
   /\ header.compression.tag \in Supported
   /\ level <= Len(layer_sizes)
   /\ Len(buf) - cursor < CurrentSpan)
  => /\ result.kind \in {"Err", "DecodeError"}
     /\ result.layers = <<>>

RECURSIVE ShiftRight(_, _)
ShiftRight(v, i) == IF i = 0 THEN v ELSE ShiftRight(v \div 2, i - 1)

\* C5 (as claimed): for every H, W and M, get_layer_sizes returns max(M, 1)
\* pairs, the i-th being (H >> i, W >> i).
C5_LayerSizes ==
  pc = "done"
  => /\ ret.ok
     /\ Len(ret.val) = Max(header.mipmap_count, 1)
     /\ \A i \in 1..Len(ret.val) :
          ret.val[i] = <<ShiftRight(header.height, i - 1),
                         ShiftRight(header.width, i - 1)>>

\* block b (0-based, row-major over the rounded-up grid) of level i (1-based):
\* its bytes in buf
LevelBlock(i, b) ==
  LET chunk_size == IF header.compression.tag = "DXT1" THEN 8 ELSE 16
  IN Slice(buf, SpanSum(header, i - 1) + b * chunk_size, chunk_size)

\* the decoded sample of level i for block column bx of block row y/4, at
\* block-local column c, on the block-local row that image row y comes from
ColumnSample(i, bx, c, y) ==
  LET w == RoundUp4(layer_sizes[i][2])
  IN dxt_chunk_transform(LevelBlock(i, (y \div 4) * (w \div 4) + bx), header)
       [(3 - (y % 4)) * 4 + c + 1]

\* C6: in every decoded compressed level, whatever its width (a multiple of 4
\* or not, below 4 or not), every output row has exactly `width` pixels and
\* the pixel at column x is the decoded sample of block column x/4,
\* block-local column x%4: the samples of the padding columns are left out.
C6_ColumnsCropped ==
  decode_layers_arm(header.compression) = "dxt"
  => \A i \in 1..Len(layers) :
       LET height == layer_sizes[i][1]
           width == layer_sizes[i][2]
       IN /\ layers[i].width = width
          /\ layers[i].height = height
          /\ Len(layers[i].data) = width * height * 4
          /\ \A y \in 0..(height - 1) : \A x \in 0..(width - 1) :
               PixelAt(layers[i], x, y) = ColumnSample(i, x \div 4, x % 4, y)

\* a level of width 5 and its mip level of width 2 have been decoded; in the
\* top row of each, a padding column holds a sample that differs from every
\* pixel of the output row
C6_Witness ==
  /\ decode_layers_arm(header.compression) = "dxt"
  /\ Len(layers) >= 2
  /\ layers[1].width = 5 /\ layers[1].height >= 4
  /\ layers[2].width = 2 /\ layers[2].height >= 2
  /\ Len(layers[1].data) = 5 * layers[1].height * 4
  /\ \E c \in 1..3 : \A x \in 0..4 :
       ColumnSample(1, 1, c, 0) # PixelAt(layers[1], x, 0)
  /\ \E c \in 2..3 : \A x \in 0..1 :
       ColumnSample(2, 0, c, 0) # PixelAt(layers[2], x, 0)

\* C7: the DXT4/5 alpha table.  Selector 0 gives alpha0 and selector 1 gives
\* alpha1; if alpha0 > alpha1, selector k+1 (k = 1..6) gives
\* ((7-k)*alpha0 + k*alpha1)/7, which lies between alpha1 and alpha0 and does
\* not increase with the selector; if alpha0 <= alpha1, selector k+1
\* (k = 1..4) gives ((5-k)*alpha0 + k*alpha1)/5, selector 6 gives 0 and
\* selector 7 gives 255.
C7_AlphaTable ==
  pc = "done" =>
    LET a0 == call.alpha0
        a1 == call.alpha1
        s == call.key
        k == call.key - 1
        v == ret.val
    IN /\ s = 0 => v = a0
       /\ s = 1 => v = a1
       /\ (a0 > a1 /\ s \in 2..7) =>
            /\ v = ((7 - k) * a0 + k * a1) \div 7
            /\ a1 <= v /\ v <= a0
            /\ s < 7 => v >= dxt5_alpha_interp(a0, a1, s + 1)
       /\ (a0 <= a1 /\ s \in 2..5) => v = ((5 - k) * a0 + k * a1) \div 5
       /\ (a0 <= a1 /\ s = 6) => v = 0
       /\ (a0 <= a1 /\ s = 7) => v = 255

\* alpha0 = 255 > alpha1 = 0, selector 4: (4*255 + 3*0)/7 = 145
C7_Witness ==
  /\ pc = "done"
  /\ call.alpha0 = 255 /\ call.alpha1 = 0 /\ call.key = 4
  /\ ret.val = 145

\* C8 (as claimed): for every pixel word and every non-zero mask (of up to
\* 16 bits here), the channel byte is value * 255 / (2^popcount(mask) - 1)
\* with value = (word & mask) >> count_trailing_zeros(mask).
C8_ChannelRescaled ==
  (/\ pc = "done"
   /\ call.mask # {}
   /\ count_ones(call.mask) <= 16)
  => /\ ret.ok
     /\ ret.val = (BitsValue(Shr(call.pixel \cap call.mask, trailing_zeros(call.mask)))
                     * 255) \div (Pow2(count_ones(call.mask)) - 1)

\* C9 (as claimed): with pixel_bytes 1, 2 or 3 and a buffer holding the
\* bytes of all levels, the uncompressed decode completes and has consumed
\* exactly the sum of height*width*pixel_bytes over the levels.
C9_NarrowPixelsDecode ==
  (/\ pc = "done"
   /\ header.compression.tag = "None"
   /\ header.pixel_bytes \in 1..3
   /\ Len(buf) >= Required(header))
  => /\ result.kind = "Ok"
     /\ cursor = Required(header)

\* C10 (as claimed): with a zero channel mask (4-byte pixels, a buffer
\* holding the bytes of all levels) the decode does not crash: the images are
\* produced and the channel of the zero mask is 0 in every pixel.
C10_ZeroMaskGivesZero ==
  (/\ pc = "done"
   /\ header.compression.tag = "None"
   /\ header.pixel_bytes = 4
   /\ \E c \in 1..4 : header.channel_masks[c] = {}
   /\ Len(buf) >= Required(header))
  => /\ result.kind = "Ok"
     /\ Len(result.layers) = LevelCount(header)
     /\ \A i \in 1..Len(result.layers) :
          \A k \in 1..Len(result.layers[i].data) :
            header.channel_masks[((k - 1) % 4) + 1] = {}
              => result.layers[i].data[k] = 0

\* the packed endpoint n (0 or 1) of the DXT1 block in buf
Endpoint(n) == buf[2 * n + 2] * 256 + buf[2 * n + 1]

\* channel ch (1 red, 2 green, 3 blue) of a packed RGB565 colour, inflated to
\* 8 bits by raw * 255 / (2^bits - 1)
Inflated565(c, ch) ==
  CASE ch = 1 -> ((c \div 2048) * 255) \div 31
    [] ch = 2 -> (((c \div 32) % 64) * 255) \div 63
    [] ch = 3 -> ((c % 32) * 255) \div 31

\* the selector of sample t (1..16) of the block's output: index bytes are
\* consumed from byte 3 down to byte 0, selectors from bit 0 upward
TexelSelector(t) ==
  LET byte == buf[8 - ((t - 1) \div 4)]
      col == (t - 1) % 4
  IN CASE col = 0 -> byte % 4
       [] col = 1 -> (byte \div 4) % 4
       [] col = 2 -> (byte \div 16) % 4
       [] col = 3 -> byte \div 64

\* C11 (as claimed): whatever the order of the endpoints, per channel,
\* selector 0 yields c0, selector 1 yields c1 and selector 2 yields
\* (2*c0 + c1)/3 of the inflated channels.
C11_SelectorsZeroToTwo ==
  pc = "done" =>
    \A t \in 1..16 : \A ch \in 1..3 :
      LET c0 == Inflated565(Endpoint(0), ch)
          c1 == Inflated565(Endpoint(1), ch)
          v == ret.val[t][ch]
      IN /\ TexelSelector(t) = 0 => v = c0
         /\ TexelSelector(t) = 1 => v = c1
         /\ TexelSelector(t) = 2 => v = (2 * c0 + c1) \div 3

\* C11 (amended): per channel, selector 0 yields c0 and selector 1 yields c1
\* whatever the order of the endpoints and whatever the variant; selector 2
\* yields (2*c0 + c1)/3 when c0_565 > c1_565 and (c0 + c1)/2 when
\* c0_565 <= c1_565, whatever the variant.
C11_SelectorTwoByOrder ==
  pc = "done" =>
    \A t \in 1..16 : \A ch \in 1..3 :
      LET c0 == Inflated565(Endpoint(0), ch)
          c1 == Inflated565(Endpoint(1), ch)
          v == ret.val[t][ch]
      IN /\ TexelSelector(t) = 0 => v = c0
         /\ TexelSelector(t) = 1 => v = c1
         /\ TexelSelector(t) = 2 =>
              v = IF Endpoint(0) > Endpoint(1) THEN (2 * c0 + c1) \div 3
                  ELSE (c0 + c1) \div 2

\* black before white (c0_565 = 0 <= c1_565 = 0xFFFF): a selector-2 texel is
\* (0 + 255)/2 = 127 in every channel, where (2*0 + 255)/3 is 85
C11_Witness ==
  /\ pc = "done"
  /\ Endpoint(0) = 0 /\ Endpoint(1) = 65535
  /\ \E t \in 1..16 :
       /\ TexelSelector(t) = 2
       /\ ret.val[t][1] = 127 /\ ret.val[t][2] = 127 /\ ret.val[t][3] = 127
  /\ \E t \in 1..16 : TexelSelector(t) = 0 /\ ret.val[t][1] = 0
  /\ \E t \in 1..16 : TexelSelector(t) = 1 /\ ret.val[t][1] = 255

\* C12: a selector-3 texel is ((c0 + 2*c1)/3 per channel, alpha 255) when
\* c0_565 > c1_565 (the packed values compared unsigned); otherwise it is
\* black, with alpha 0 if the header's pixel format is not Unknown and alpha
\* 255 if it is.  Every DXT1 texel's alpha is 0 or 255, and it is 0 only in
\* that one case (format not Unknown, c0_565 <= c1_565, selector 3).
C12_SelectorThreeAndAlpha ==
  pc = "done" =>
    \A t \in 1..16 :
      LET gt == Endpoint(0) > Endpoint(1)
          flag == header.pixel_format # "Unknown"
          px == ret.val[t]
      IN /\ px[4] \in {0, 255}
         /\ (TexelSelector(t) = 3 /\ gt) =>
              /\ \A ch \in 1..3 :
                   px[ch] = (Inflated565(Endpoint(0), ch)
                               + 2 * Inflated565(Endpoint(1), ch)) \div 3
              /\ px[4] = 255
         /\ (TexelSelector(t) = 3 /\ ~gt) =>
              px = <<0, 0, 0, IF flag THEN 0 ELSE 255>>
         /\ px[4] = 0 <=> (flag /\ ~gt /\ TexelSelector(t) = 3)

\* a block with equal endpoints under a recognised pixel format: its
\* selector-3 texels are transparent black, its other texels opaque
C12_Witness ==
  /\ pc = "done"
  /\ header.pixel_format = "A8R8G8B8"
  /\ Endpoint(0) = Endpoint(1) /\ Endpoint(0) = 65535
  /\ \E t \in 1..16 : TexelSelector(t) = 3 /\ ret.val[t] = <<0, 0, 0, 0>>
  /\ \E t \in 1..16 : TexelSelector(t) = 2 /\ ret.val[t] = <<255, 255, 255, 255>>

\* the texel at block-local row r and column c (0..3) of a block, read from
\* the bytes that encode row r: index byte r (selectors from bit 0 upward),
\* and for DXT2/3 the alpha nibbles of row r, for DXT4/5 the alpha selectors
\* of row r
RowTexel(hd, block, r, c) ==
  LET dxt1 == hd.compression.tag = "DXT1"
      base == IF dxt1 THEN 0 ELSE 8
      e0 == block[base + 2] * 256 + block[base + 1]
      e1 == block[base + 4] * 256 + block[base + 3]
      s == (block[base + 5 + r] \div Pow2(2 * c)) % 4
      three == dxt1 /\ e0 <= e1
      colour(ch) ==
        LET c0 == Inflated565(e0, ch)
            c1 == Inflated565(e1, ch)
        IN CASE s = 0 -> c0
             [] s = 1 -> c1
             [] s = 2 -> IF three THEN (c0 + c1) \div 2 ELSE (2 * c0 + c1) \div 3
             [] s = 3 -> IF three THEN 0 ELSE (c0 + 2 * c1) \div 3
      alpha ==
        CASE dxt1 -> IF hd.pixel_format # "Unknown" /\ three /\ s = 3 THEN 0 ELSE 255
          [] hd.compression.tag \in {"DXT2", "DXT3"} ->
               (((block[2 * r + (c \div 2) + 1] \div Pow2(4 * (c % 2))) % 16) * 255) \div 15
          [] OTHER -> dxt5_alpha_interp(block[1], block[2], AlphaKey(block, 3 * (4 * r + c)))
  IN <<colour(1), colour(2), colour(3), alpha>>

\* the pixels emitted for level i (1-based) before the truncation
Emitted(i) ==
  DxtPixels(header,
            Slice(buf, SpanSum(header, i - 1), LevelSpan(header, i - 1)),
            IF header.compression.tag = "DXT1" THEN 8 ELSE 16,
            RoundUp4(layer_sizes[i][2]), layer_sizes[i][2])

\* C13: in every decoded compressed level, whatever its height (a multiple of
\* 4 or not, below 4 or not), the rows are emitted top row first: emitted row
\* y (over the rounded-up height) is the texel row encoded by index byte y%4
\* of block row y/4, so the padding rows come last; the truncation to
\* width*height*4 bytes removes only them, and every pixel (x, y) with
\* x < width, y < height is kept at byte offset (y*width + x)*4.
C13_RowsInImageOrder ==
  decode_layers_arm(header.compression) = "dxt"
  => \A i \in 1..Len(layers) :
       LET height == layer_sizes[i][1]
           width == layer_sizes[i][2]
           hr == RoundUp4(height)
           wr == RoundUp4(width)
           emitted == Emitted(i)
       IN /\ Len(emitted) = hr * width
          /\ \A y \in 0..(hr - 1) : \A x \in 0..(width - 1) :
               emitted[y * width + x + 1]
                 = RowTexel(header, LevelBlock(i, (y \div 4) * (wr \div 4) + (x \div 4)),
                            y % 4, x % 4)
          /\ Len(layers[i].data) = width * height * 4
          /\ \A y \in 0..(height - 1) : \A x \in 0..(width - 1) :
               PixelAt(layers[i], x, y) = emitted[y * width + x + 1]

\* a level of height 5 and its mip level of height 2 have been decoded: rows 0
\* and 1 of the first differ, and three padding rows of the first and two of
\* the second were emitted after the kept rows and removed
C13_Witness ==
  /\ decode_layers_arm(header.compression) = "dxt"
  /\ Len(layers) >= 2
  /\ layers[1].height = 5 /\ layers[1].width >= 1
  /\ layers[2].height = 2
  /\ PixelAt(layers[1], 0, 0) # PixelAt(layers[1], 0, 1)
  /\ PixelAt(layers[1], 0, 4) = RowTexel(header, LevelBlock(1, RoundUp4(layers[1].width) \div 4), 0, 0)
  /\ Len(Emitted(1)) = 8 * layers[1].width
  /\ Len(layers[1].data) = 5 * layers[1].width * 4
  /\ Len(Emitted(2)) = 4 * layers[2].width
  /\ Emitted(1)[5 * layers[1].width + 1] # PixelAt(layers[1], 0, 4)

\* the span of level i (1-based) of the current call: h*w*pixel_bytes
\* uncompressed, hr*wr/2 for DXT1 and hr*wr for DXT2-5, with
\* hr = ceil(max(h,4)/4)*4 and wr = ceil(max(w,4)/4)*4
SpanOfLevel(i) ==
  LET h == layer_sizes[i][1]
      w == layer_sizes[i][2]
      hr == 4 * ((Max(h, 4) + 3) \div 4)
      wr == 4 * ((Max(w, 4) + 3) \div 4)
  IN CASE header.compression.tag = "None" -> h * w * header.pixel_bytes
       [] header.compression.tag = "DXT1" -> (hr * wr) \div 2
       [] OTHER -> hr * wr

\* the sum of the spans of the levels before level i (1-based)
RECURSIVE SliceStart(_)
SliceStart(i) == IF i <= 1 THEN 0 ELSE SliceStart(i - 1) + SpanOfLevel(i - 1)

\* level i decoded from its own slice of buf alone: the bytes from
\* SliceStart(i), SpanOfLevel(i) of them
LevelImage(i) ==
  LET slice == Slice(buf, SliceStart(i), SpanOfLevel(i))
      h == layer_sizes[i][1]
      w == layer_sizes[i][2]
  IN IF decode_layers_arm(header.compression) = "dxt"
     THEN DxtLayer(header, slice, h, w).val.image
     ELSE UncompressedLayer(header, slice, h, w, overflow_checks).val.image

\* in every state of a call: the cursor stands at the sum of the spans of the
\* levels processed, inside buf; the images built are those of levels 0, 1,
\* ... in that order, each decoded from its own slice; Ok returns them so
C14_LevelsInPlace ==
  /\ cursor = SliceStart(level)
  /\ cursor <= Len(buf)
  /\ result.kind # "panic" =>
       /\ Len(layers) = level - 1
       /\ \A i \in 1..Len(layers) :
            /\ layers[i] = LevelImage(i)
            /\ layers[i].height = layer_sizes[i][1]
            /\ layers[i].width = layer_sizes[i][2]
  /\ result.kind = "Ok" =>
       /\ result.layers = layers
       /\ Len(result.layers) = Len(layer_sizes)

\* in every step that moves the cursor, the level or the images: either
\* exactly the next level was processed (the cursor advanced by its span, its
\* image appended last), or the call unwound and nothing moved
C14_LevelStep ==
  (cursor' # cursor \/ level' # level \/ layers' # layers) =>
    IF result'.kind = "panic"
    THEN cursor' = cursor /\ level' = level /\ layers' = <<>>
    ELSE /\ level <= Len(layer_sizes)
         /\ level' = level + 1
         /\ cursor' = cursor + SpanOfLevel(level)
         /\ layers' = Append(layers, LevelImage(level))

\* C14: the levels are processed strictly in level order 0, 1, 2, ...; the
\* cursor advances exactly once per level, by that level's span, so level i
\* is decoded from the contiguous slice starting at the sum of the spans of
\* levels 0..i-1, the slices of different levels are disjoint, and the
\* returned sequence is ordered level 0 first.
C14_CursorDiscipline == []C14_LevelsInPlace /\ [][C14_LevelStep]_vars

\* a 5x5 DXT1 file with three levels has been decoded: spans 32, 8 and 8, the
\* cursor at 48, and the two last levels (read from different slices) differ
C14_Witness ==
  /\ pc = "done"
  /\ result.kind = "Ok"
  /\ header.compression.tag = "DXT1"
  /\ header.height = 5 /\ header.width = 5
  /\ Len(result.layers) = 3
  /\ SpanOfLevel(1) = 32 /\ SpanOfLevel(2) = 8 /\ SpanOfLevel(3) = 8
  /\ cursor = 48
  /\ result.layers[2].width = 2 /\ result.layers[3].width = 1
  /\ PixelAt(result.layers[2], 0, 0) # PixelAt(result.layers[3], 0, 0)

====
